---- MODULE Spec2Model ----
(***************************************************************************)
(* A model of the deixis/money package: the fixed-point Decimal type       *)
(* (value * 10^exp, value an arbitrary-precision integer), its arithmetic  *)
(* and rounding methods, the package-level Round adapter, and the text     *)
(* form of a Decimal.                                                      *)
(*                                                                         *)
(* math/big integers are modelled as the library stores them: a sign and a *)
(* normalised little-endian magnitude, so that the 16 digits of the        *)
(* division precision are computed exactly.                                *)
(***************************************************************************)
EXTENDS Integers, Sequences, FiniteSets, TLC

VARIABLES pc, op, argD, argD2, argPlaces, argMode, argText, ret, retStr, retInt, err,
          unoficialCurrencies, goroutines, requested, returned

\* the registry of unofficial currencies, the calls in flight on it, and
\* the history of the registrations asked for and completed
registryVars == <<unoficialCurrencies, goroutines, requested, returned>>

\* one call of the Decimal type and what it left behind
decimalVars == <<pc, op, argD, argD2, argPlaces, argMode, argText, ret, retStr, retInt, err>>

vars == <<pc, op, argD, argD2, argPlaces, argMode, argText, ret, retStr, retInt, err,
          unoficialCurrencies, goroutines, requested, returned>>

----------------------------------------------------------------------------
(* Bounds of the model.                                                    *)

\* largest magnitude of an operand's coefficient
MaxCoef == 26
\* operands have exponents in -MaxScale .. MaxExp
MaxScale == 3
MaxExp == 1
MaxWholeExp == 3
\* rounding precisions (places) range over -MaxExp .. MaxPlaces
MaxPlaces == 3
\* largest magnitude of a divisor's coefficient
MaxDivisor == 12
\* rounding units have exponents in -MaxUnitScale .. 0
MaxUnitScale == 2
\* longest text handed to ParseDecimal
MaxTextLen == 5
\* largest exponent handed to Pow
MaxPow == 5

----------------------------------------------------------------------------
(* A local variable of the code: F applied to the value of v, the value    *)
(* being computed once, as an assignment computes it.                      *)

Let(v, F(_)) == CHOOSE r \in {F(x) : x \in {v}} : TRUE

----------------------------------------------------------------------------
(* math/big: natural numbers (type nat): a little-endian sequence of limbs *)
(* with no leading zero limb, the empty sequence being 0.  The library's   *)
(* limbs are machine words; the model's are base-10000 digits, so that a   *)
(* power of ten is a shift and the decimal text is read off the limbs.     *)

Base == 10000
LimbDigits == 4

RECURSIVE pow10(_)
pow10(n) == IF n = 0 THEN 1 ELSE 10 * pow10(n - 1)

RECURSIVE natNorm(_)
natNorm(z) ==
    IF Len(z) > 0 /\ z[Len(z)] = 0 THEN natNorm(SubSeq(z, 1, Len(z) - 1)) ELSE z

RECURSIVE natFromInt(_)
natFromInt(n) == IF n = 0 THEN <<>> ELSE <<n % Base>> \o natFromInt(n \div Base)

RECURSIVE natToInt(_)
natToInt(z) == IF z = <<>> THEN 0 ELSE z[1] + Base * natToInt(Tail(z))

natLimb(z, i) == IF i <= Len(z) THEN z[i] ELSE 0

RECURSIVE natCmpAt(_, _, _)
natCmpAt(a, b, i) ==
    IF i = 0 THEN 0
    ELSE IF a[i] < b[i] THEN -1
    ELSE IF a[i] > b[i] THEN 1
    ELSE natCmpAt(a, b, i - 1)

natCmp(a, b) ==
    IF Len(a) < Len(b) THEN -1
    ELSE IF Len(a) > Len(b) THEN 1
    ELSE natCmpAt(a, b, Len(a))

RECURSIVE natAddAt(_, _, _, _)
natAddAt(a, b, i, c) ==
    IF i > Len(a) /\ i > Len(b)
    THEN (IF c = 0 THEN <<>> ELSE <<c>>)
    ELSE LET s == natLimb(a, i) + natLimb(b, i) + c
         IN  <<s % Base>> \o natAddAt(a, b, i + 1, s \div Base)

natAdd(a, b) == natAddAt(a, b, 1, 0)

\* a - b for a >= b
RECURSIVE natSubAt(_, _, _, _)
natSubAt(a, b, i, c) ==
    IF i > Len(a) THEN <<>>
    ELSE LET s == a[i] - natLimb(b, i) - c
         IN  <<IF s < 0 THEN s + Base ELSE s>>
                 \o natSubAt(a, b, i + 1, IF s < 0 THEN 1 ELSE 0)

natSub(a, b) == natNorm(natSubAt(a, b, 1, 0))

\* a * w for one limb w
RECURSIVE natMulWAt(_, _, _, _)
natMulWAt(a, w, i, c) ==
    IF i > Len(a)
    THEN (IF c = 0 THEN <<>> ELSE <<c>>)
    ELSE LET s == a[i] * w + c
         IN  <<s % Base>> \o natMulWAt(a, w, i + 1, s \div Base)

natMulW(a, w) == natNorm(natMulWAt(a, w, 1, 0))

\* a shifted up by n limbs
natShlLimbs(a, n) == IF a = <<>> THEN a ELSE [i \in 1..n |-> 0] \o a

RECURSIVE natMulAt(_, _, _)
natMulAt(a, b, i) ==
    IF i > Len(b) THEN <<>>
    ELSE Let(natMulAt(a, b, i + 1), LAMBDA rest :
         Let(natMulW(a, b[i]), LAMBDA p : natAdd(p, natShlLimbs(rest, 1))))

\* the recursion runs over the shorter operand
natMul(a, b) == IF Len(b) <= Len(a) THEN natMulAt(a, b, 1) ELSE natMulAt(b, a, 1)

\* a divided by one limb w # 0, from the top limb down (nat.divW)
RECURSIVE natDivWAt(_, _, _)
natDivWAt(a, w, i) ==
    IF i > Len(a) THEN [q |-> <<>>, r |-> 0]
    ELSE Let(natDivWAt(a, w, i + 1), LAMBDA prev :
         Let(prev.r * Base + a[i], LAMBDA cur :
             [q |-> <<cur \div w>> \o prev.q, r |-> cur % w]))

natDivW(a, w) ==
    Let(natDivWAt(a, w, 1), LAMBDA qr :
        [q |-> natNorm(qr.q), r |-> natFromInt(qr.r)])

\* the largest limb k in lo..hi with b * k <= r
RECURSIVE natDivLimb(_, _, _, _)
natDivLimb(r, b, lo, hi) ==
    IF lo = hi THEN lo
    ELSE Let((lo + hi + 1) \div 2, LAMBDA mid :
         Let(natMulW(b, mid), LAMBDA p :
             IF natCmp(p, r) <= 0
             THEN natDivLimb(r, b, mid, hi)
             ELSE natDivLimb(r, b, lo, mid - 1)))

\* a divided by b of two limbs or more, from the top limb down (nat.divLarge)
RECURSIVE natDivLargeAt(_, _, _)
natDivLargeAt(a, b, i) ==
    IF i > Len(a) THEN [q |-> <<>>, r |-> <<>>]
    ELSE Let(natDivLargeAt(a, b, i + 1), LAMBDA prev :
         Let(natNorm(<<a[i]>> \o prev.r), LAMBDA cur :
         Let(natDivLimb(cur, b, 0, Base - 1), LAMBDA k :
         Let(natMulW(b, k), LAMBDA p :
             [q |-> <<k>> \o prev.q, r |-> natSub(cur, p)]))))

natDivLarge(a, b) ==
    Let(natDivLargeAt(a, b, 1), LAMBDA qr : [q |-> natNorm(qr.q), r |-> qr.r])

\* nat.div: quotient and remainder of a by b # 0
natDiv(a, b) ==
    IF natCmp(a, b) < 0 THEN [q |-> <<>>, r |-> a]
    ELSE IF Len(b) = 1 THEN natDivW(a, b[1])
    ELSE natDivLarge(a, b)

\* a * 10^n and the quotient of a by 10^n
natMulExp10(a, n) ==
    Let(natMulW(a, pow10(n % LimbDigits)), LAMBDA p :
        natShlLimbs(p, n \div LimbDigits))

natQuoExp10(a, n) ==
    LET m == n \div LimbDigits
    IN  IF m >= Len(a) THEN <<>>
        ELSE natDivW(SubSeq(a, m + 1, Len(a)), pow10(n % LimbDigits)).q

----------------------------------------------------------------------------
(* math/big: signed integers (type Int): {neg, abs}, zero is never         *)
(* negative.                                                               *)

bigMake(neg, abs) == [neg |-> neg /\ abs # <<>>, abs |-> abs]

\* big.NewInt
bigNewInt(n) ==
    Let(natFromInt(IF n < 0 THEN -n ELSE n), LAMBDA z : bigMake(n < 0, z))

\* Int.Int64, for values that fit
bigInt64(x) == IF x.neg THEN -natToInt(x.abs) ELSE natToInt(x.abs)

bigSign(x) == IF x.abs = <<>> THEN 0 ELSE IF x.neg THEN -1 ELSE 1

bigAbs(x) == bigMake(FALSE, x.abs)

bigNeg(x) == bigMake(~x.neg, x.abs)

bigCmp(x, y) ==
    IF x.neg = y.neg
    THEN (IF x.neg THEN -natCmp(x.abs, y.abs) ELSE natCmp(x.abs, y.abs))
    ELSE (IF x.neg THEN -1 ELSE 1)

bigAdd(x, y) ==
    IF x.neg = y.neg THEN Let(natAdd(x.abs, y.abs), LAMBDA z : bigMake(x.neg, z))
    ELSE IF natCmp(x.abs, y.abs) >= 0
         THEN Let(natSub(x.abs, y.abs), LAMBDA z : bigMake(x.neg, z))
         ELSE Let(natSub(y.abs, x.abs), LAMBDA z : bigMake(~x.neg, z))

bigSub(x, y) == Let(bigNeg(y), LAMBDA ny : bigAdd(x, ny))

bigMul(x, y) == Let(natMul(x.abs, y.abs), LAMBDA z : bigMake(x.neg # y.neg, z))

\* Exp(tenInt, n, nil) for n >= 0
bigExp10(n) == Let(natMulExp10(<<1>>, n), LAMBDA z : bigMake(FALSE, z))

\* x.Mul(x, expScale) and x.Quo(x, expScale) with expScale = Exp(tenInt, n, nil),
\* the quotient truncated toward zero
bigMulExp10(x, n) == Let(natMulExp10(x.abs, n), LAMBDA z : bigMake(x.neg, z))
bigQuoExp10(x, n) == Let(natQuoExp10(x.abs, n), LAMBDA z : bigMake(x.neg, z))

\* Lsh(x, 1)
bigLsh1(x) == Let(natMulW(x.abs, 2), LAMBDA z : bigMake(x.neg, z))

\* Int.QuoRem: T-division, the quotient truncated toward zero, the remainder
\* with the sign of x
bigQuoRem(x, y) ==
    Let(natDiv(x.abs, y.abs), LAMBDA qr :
        [q |-> bigMake(x.neg # y.neg, qr.q), r |-> bigMake(x.neg, qr.r)])

bigQuo(x, y) == bigQuoRem(x, y).q

\* Int.DivMod: Euclidean division, 0 <= m < |y|
bigDivMod(x, y) ==
    Let(bigQuoRem(x, y), LAMBDA qr :
        IF qr.r.neg
        THEN (IF y.neg
              THEN [q |-> bigAdd(qr.q, bigNewInt(1)), m |-> bigSub(qr.r, y)]
              ELSE [q |-> bigSub(qr.q, bigNewInt(1)), m |-> bigAdd(qr.r, y)])
        ELSE [q |-> qr.q, m |-> qr.r])

\* Int.Div: the quotient of the Euclidean division
bigDiv(x, y) == bigDivMod(x, y).q

----------------------------------------------------------------------------
(* Decimal: number = value * 10^exp.                                       *)

SignPositive == 1
SignNeutral == 0
SignNegative == -1

divisionPrecision == 16

\* int32, the type of the exponent: the range, and the arithmetic that
\* wraps around it
MaxInt32 == 2147483647

MinInt32 == -MaxInt32 - 1

\* a + b in int32
add32(a, b) ==
    IF a > 0 /\ b > 0 /\ a > MaxInt32 - b THEN (a + MinInt32) + (b + MinInt32)
    ELSE IF a < 0 /\ b < 0 /\ a < MinInt32 - b THEN (a - MinInt32) + (b - MinInt32)
    ELSE a + b

\* -a in int32
neg32(a) == IF a = MinInt32 THEN MinInt32 ELSE -a

\* a - b in int32
sub32(a, b) == add32(a, neg32(b))

\* int64(a) + int64(b) is outside the int32 range
overflows32(a, b) ==
    \/ a > 0 /\ b > 0 /\ a > MaxInt32 - b
    \/ a < 0 /\ b < 0 /\ a < MinInt32 - b

buildDecimal(value, exp) == [value |-> bigNewInt(value), exp |-> exp]

zero == buildDecimal(0, 1)

\* the zero value Decimal{}
nullDecimal == buildDecimal(0, 0)

min(x, y) == IF x >= y THEN y ELSE x

\* truncates, does not round
rescale(d, exp) ==
    Let(IF exp >= d.exp THEN exp - d.exp ELSE d.exp - exp, LAMBDA diff :
        [value |-> IF exp > d.exp THEN bigQuoExp10(d.value, diff)
                   ELSE IF exp < d.exp THEN bigMulExp10(d.value, diff)
                   ELSE d.value,
         exp |-> exp])

Sign(d) == bigSign(d.value)

Exponent(d) == d.exp

Abs(d) == [value |-> bigAbs(d.value), exp |-> d.exp]

Neg(d) == [value |-> bigNeg(d.value), exp |-> d.exp]

\* Add with a fault: the second operand is not brought to the common scale
Add_unscaled(d, d2) ==
    Let(min(d.exp, d2.exp), LAMBDA baseScale :
    Let(rescale(d, baseScale), LAMBDA rd :
        [value |-> bigAdd(rd.value, d2.value), exp |-> baseScale]))

Add(d, d2) ==
    Let(min(d.exp, d2.exp), LAMBDA baseScale :
    Let(rescale(d, baseScale), LAMBDA rd :
    Let(rescale(d2, baseScale), LAMBDA rd2 :
        [value |-> bigAdd(rd.value, rd2.value), exp |-> baseScale])))

Sub(d, d2) ==
    Let(min(d.exp, d2.exp), LAMBDA baseScale :
    Let(rescale(d, baseScale), LAMBDA rd :
    Let(rescale(d2, baseScale), LAMBDA rd2 :
        [value |-> bigSub(rd.value, rd2.value), exp |-> baseScale])))

Mul(d, d2) == [value |-> bigMul(d.value, d2.value), exp |-> d.exp + d2.exp]

\* Cmp with a fault: the coefficients are compared as they are stored
Cmp_unscaled(d, d2) == bigCmp(d.value, d2.value)

Cmp(d, d2) ==
    IF d.exp = d2.exp THEN bigCmp(d.value, d2.value)
    ELSE Let(min(d.exp, d2.exp), LAMBDA baseExp :
         Let(IF d.exp # baseExp THEN rescale(d, baseExp) ELSE d, LAMBDA rd :
         Let(IF d.exp # baseExp THEN d2 ELSE rescale(d2, baseExp), LAMBDA rd2 :
             bigCmp(rd.value, rd2.value))))

Equal(d, d2) == Cmp(d, d2) = 0

\* big.Int.Exp(10, y, nil): 10^y, and 1 when y <= 0
bigExp(y) == IF y <= 0 THEN bigNewInt(1) ELSE bigExp10(y)

Floor(d) ==
    Let(bigExp(-d.exp), LAMBDA exp :
    Let(bigDiv(d.value, exp), LAMBDA z : [value |-> z, exp |-> 0]))

\* Ceil with a fault: the division truncates toward zero
Ceil_truncating(d) ==
    Let(bigExp(-d.exp), LAMBDA exp :
    Let(bigQuoRem(d.value, exp), LAMBDA qr :
        [value |-> IF bigCmp(qr.r, bigNewInt(0)) # 0
                   THEN bigAdd(qr.q, bigNewInt(1))
                   ELSE qr.q,
         exp |-> 0]))

Ceil(d) ==
    Let(bigExp(-d.exp), LAMBDA exp :
    Let(bigDivMod(d.value, exp), LAMBDA zm :
        [value |-> IF bigCmp(zm.m, bigNewInt(0)) # 0
                   THEN bigAdd(zm.q, bigNewInt(1))
                   ELSE zm.q,
         exp |-> 0]))

Truncate(d, precision) ==
    IF precision >= 0 /\ neg32(precision) > d.exp THEN rescale(d, neg32(precision)) ELSE d

\* quotient q and remainder r with d = d2 * q + r, q a multiple of
\* 10^(-precision); d2 is not zero
quoRem(d, d2, precision) ==
    Let(neg32(precision), LAMBDA scale :
    Let(sub32(sub32(d.exp, d2.exp), scale), LAMBDA e :
    Let(IF e < 0 THEN d.value ELSE bigMulExp10(d.value, e), LAMBDA aa :
    Let(IF e < 0 THEN bigMulExp10(d2.value, -e) ELSE d2.value, LAMBDA bb :
    Let(IF e < 0 THEN d.exp ELSE add32(scale, d2.exp), LAMBDA scalerest :
    Let(bigQuoRem(aa, bb), LAMBDA qr :
        [q |-> [value |-> qr.q, exp |-> scale],
         r |-> [value |-> qr.r, exp |-> scalerest]]))))))

divRound(d, d2, precision) ==
    Let(quoRem(d, d2, precision), LAMBDA qr :
    Let(bigLsh1(bigAbs(qr.r.value)), LAMBDA rv2 :
    Let([value |-> rv2, exp |-> add32(qr.r.exp, precision)], LAMBDA r2 :
    Let(Cmp(r2, Abs(d2)), LAMBDA c :
        IF c < 0 THEN qr.q
        ELSE IF Sign(d) * Sign(d2) < SignNegative
             THEN Sub(qr.q, buildDecimal(1, neg32(precision)))
             ELSE Add(qr.q, buildDecimal(1, neg32(precision)))))))

Div(d, d2) == divRound(d, d2, divisionPrecision)

Mod(d, d2) ==
    Let(Div(d, d2), LAMBDA q :
    Let(Truncate(q, 0), LAMBDA quo :
    Let(Mul(d2, quo), LAMBDA p : Sub(d, p))))

IntPart(d) == bigInt64(rescale(d, 0).value)

\* Pow with a fault: an odd exponent gets no extra factor
RECURSIVE Pow_noOddFactor(_, _)
Pow_noOddFactor(d, d2) ==
    IF IntPart(d2) = 0 THEN buildDecimal(1, 0)
    ELSE Let(Div(d2, buildDecimal(2, 0)), LAMBDA half :
         Let(Pow_noOddFactor(d, half), LAMBDA temp : Mul(temp, temp)))

RECURSIVE Pow(_, _)
Pow(d, d2) ==
    IF IntPart(d2) = 0 THEN buildDecimal(1, 0)
    ELSE Let(Div(d2, buildDecimal(2, 0)), LAMBDA half :
         Let(Pow(d, half), LAMBDA temp :
         Let(Mul(temp, temp), LAMBDA square :
             IF IntPart(d2) % 2 = 0 THEN square
             ELSE IF IntPart(d2) > 0 THEN Mul(square, d)
             ELSE Div(square, d))))

\* the number of calls of Pow that one call makes below itself
RECURSIVE PowDepth(_)
PowDepth(d2) ==
    IF IntPart(d2) = 0 THEN 0
    ELSE Let(Div(d2, buildDecimal(2, 0)), LAMBDA half : 1 + PowDepth(half))

\* Round with a fault: the half is added whatever the sign
Round_addsHalf(d, places) ==
    Let(rescale(d, -places - 1), LAMBDA r0 :
    Let(bigAdd(r0.value, bigNewInt(5)), LAMBDA v1 :
    Let(bigDivMod(v1, bigNewInt(10)), LAMBDA dm :
        [value |-> IF bigSign(dm.q) = SignNegative /\ bigSign(dm.m) # 0
                   THEN bigAdd(dm.q, bigNewInt(1))
                   ELSE dm.q,
         exp |-> r0.exp + 1])))

\* Round with a fault: the exponent of the guard digit is kept
Round_staleExp(d, places) ==
    Let(rescale(d, -places - 1), LAMBDA r0 :
    Let(IF bigSign(r0.value) = SignNegative
        THEN bigSub(r0.value, bigNewInt(5))
        ELSE bigAdd(r0.value, bigNewInt(5)), LAMBDA v1 :
    Let(bigDivMod(v1, bigNewInt(10)), LAMBDA dm :
        [value |-> IF bigSign(dm.q) = SignNegative /\ bigSign(dm.m) # 0
                   THEN bigAdd(dm.q, bigNewInt(1))
                   ELSE dm.q,
         exp |-> r0.exp])))

Round(d, places) ==
    Let(rescale(d, sub32(neg32(places), 1)), LAMBDA r0 :
    Let(IF bigSign(r0.value) = SignNegative
        THEN bigSub(r0.value, bigNewInt(5))
        ELSE bigAdd(r0.value, bigNewInt(5)), LAMBDA v1 :
    Let(bigDivMod(v1, bigNewInt(10)), LAMBDA dm :
        [value |-> IF bigSign(dm.q) = SignNegative /\ bigSign(dm.m) # 0
                   THEN bigAdd(dm.q, bigNewInt(1))
                   ELSE dm.q,
         exp |-> add32(r0.exp, 1)])))

\* RoundUp with a fault: no test for a value that is already exact
RoundUp_noExactCheck(d, precision) ==
    Let(buildDecimal(5, -precision - 1), LAMBDA halfPrecision :
    Let(Add(d, halfPrecision), LAMBDA s : Round(s, precision)))

RoundUp(d, precision) ==
    Let(Round(d, precision), LAMBDA r :
        IF Equal(r, d) THEN d
        ELSE Let(buildDecimal(5, sub32(neg32(precision), 1)), LAMBDA halfPrecision :
             Let(Add(d, halfPrecision), LAMBDA s : Round(s, precision))))

\* RoundDown with a fault: the half is added, as in RoundUp
RoundDown_addsHalf(d, precision) ==
    Let(Round(d, precision), LAMBDA r :
        IF Equal(r, d) THEN d
        ELSE Let(buildDecimal(5, sub32(neg32(precision), 1)), LAMBDA halfPrecision :
             Let(Add(d, halfPrecision), LAMBDA s : Round(s, precision))))

RoundDown(d, precision) ==
    Let(Round(d, precision), LAMBDA r :
        IF Equal(r, d) THEN d
        ELSE Let(buildDecimal(-5, sub32(neg32(precision), 1)), LAMBDA halfPrecision :
             Let(Add(d, halfPrecision), LAMBDA s : Round(s, precision))))

RoundNearest(d, unit) ==
    Let(Round(d, neg32(unit.exp)), LAMBDA rounded :
    Let(Mod(rounded, unit), LAMBDA remainder :
    Let(IF Sign(rounded) = SignNegative THEN -1 ELSE 1, LAMBDA cmp :
    Let(IF Sign(rounded) = SignNegative THEN Neg(unit) ELSE unit, LAMBDA unit2 :
    Let(Div(unit2, buildDecimal(2, 0)), LAMBDA half :
        IF Cmp(remainder, half) = cmp
        THEN Let(Sub(unit2, remainder), LAMBDA t : Add(rounded, t))
        ELSE Sub(rounded, remainder))))))

\* the package-level Round(x, unit, mode)
MoneyRound(x, unit, mode) ==
    Let(neg32(Exponent(unit)), LAMBDA prec :
        CASE mode = "down" ->
               Let(RoundDown(x, prec), LAMBDA rounded :
               Let(Mod(rounded, unit), LAMBDA m :
               Let(Sub(rounded, m), LAMBDA t : Truncate(t, prec))))
          [] mode = "up" ->
               Let(RoundUp(x, prec), LAMBDA rounded :
               Let(Mod(rounded, unit), LAMBDA m :
               Let(Add(rounded, m), LAMBDA t : Truncate(t, prec))))
          [] mode = "to_nearest" ->
               Let(RoundNearest(x, unit), LAMBDA t : Truncate(t, prec))
          [] OTHER -> nullDecimal)

----------------------------------------------------------------------------
(* Text.  A string is a sequence of one-character strings.                 *)

decSeparator == <<".">>

allowedDecimalRunes == {"+", "-", "."}

DigitChars == <<"0", "1", "2", "3", "4", "5", "6", "7", "8", "9">>

IsDigit(c) == \E i \in 1..Len(DigitChars) : DigitChars[i] = c

digitVal(c) == (CHOOSE i \in 1..Len(DigitChars) : DigitChars[i] = c) - 1

Repeat(c, n) == [i \in 1..n |-> c]

\* strings.Split(value, "."): the pieces between the separators
RECURSIVE SplitAt(_, _, _)
SplitAt(value, i, cur) ==
    IF i > Len(value) THEN <<cur>>
    ELSE IF <<value[i]>> = decSeparator
         THEN <<cur>> \o SplitAt(value, i + 1, <<>>)
         ELSE SplitAt(value, i + 1, Append(cur, value[i]))

Split(value) == SplitAt(value, 1, <<>>)

\* the digits of a natural number read in base 10
RECURSIVE natSetDigits(_, _)
natSetDigits(digits, n) ==
    IF n = 0 THEN <<>>
    ELSE Let(natSetDigits(digits, n - 1), LAMBDA acc :
         Let(natMulW(acc, 10), LAMBDA shifted :
             natAdd(shifted, natFromInt(digitVal(digits[n])))))

\* big.Int.SetString(s, 10): an optional sign, then one digit or more
bigSetString(str) ==
    Let(Len(str) > 0 /\ str[1] \in {"+", "-"}, LAMBDA signed :
    Let(IF signed THEN Tail(str) ELSE str, LAMBDA digits :
        IF Len(digits) > 0 /\ \A i \in 1..Len(digits) : IsDigit(digits[i])
        THEN [ok |-> TRUE,
              value |-> bigMake(signed /\ str[1] = "-",
                                natSetDigits(digits, Len(digits)))]
        ELSE [ok |-> FALSE, value |-> bigNewInt(0)]))

\* the n low decimal digits of the limb w
limbString(w, n) == [i \in 1..n |-> DigitChars[((w \div pow10(n - i)) % 10) + 1]]

limbLen(w) == IF w >= 1000 THEN 4 ELSE IF w >= 100 THEN 3 ELSE IF w >= 10 THEN 2 ELSE 1

RECURSIVE natStringAt(_, _)
natStringAt(a, i) ==
    IF i = 0 THEN <<>>
    ELSE IF i = Len(a) THEN limbString(a[i], limbLen(a[i])) \o natStringAt(a, i - 1)
    ELSE limbString(a[i], LimbDigits) \o natStringAt(a, i - 1)

natString(a) == IF a = <<>> THEN <<"0">> ELSE natStringAt(a, Len(a))

\* big.Int.String()
bigString(x) == IF x.neg THEN <<"-">> \o natString(x.abs) ELSE natString(x.abs)

ErrInvalidDecimal == "ErrInvalidDecimal"

NoError == "nil"

\* the pair (Decimal, error) that ParseDecimal returns
ParseDecimal(value) ==
    IF \E i \in 1..Len(value) :
          ~IsDigit(value[i]) /\ value[i] \notin allowedDecimalRunes
    THEN [d |-> zero, err |-> ErrInvalidDecimal]
    ELSE Let(Split(value), LAMBDA parts :
         IF Len(parts) > 2 THEN [d |-> zero, err |-> ErrInvalidDecimal]
         ELSE Let(IF Len(parts) = 1 THEN parts[1] ELSE parts[1] \o parts[2],
                  LAMBDA ints :
              Let(IF Len(parts) = 1 THEN 0 ELSE -Len(parts[2]), LAMBDA exp :
              Let(bigSetString(ints), LAMBDA dValue :
                  IF ~dValue.ok THEN [d |-> zero, err |-> ErrInvalidDecimal]
                  ELSE [d |-> [value |-> dValue.value, exp |-> exp],
                        err |-> NoError]))))

roundPrec(d) == IF d.exp < 0 THEN d.exp * (-1) ELSE 0

\* String with a fault: the fraction is not padded with zeros on the left
String_noPadding(d) ==
    IF d.exp >= 0
    THEN Let(bigString(rescale(d, 0).value), LAMBDA intPart :
         Let(IF roundPrec(d) > 0 THEN roundPrec(d) ELSE 1, LAMBDA prec :
             intPart \o decSeparator \o Repeat("0", prec)))
    ELSE Let(natString(bigAbs(d.value).abs), LAMBDA str :
         Let(IF Len(str) > -d.exp
             THEN SubSeq(str, 1, Len(str) + d.exp)
             ELSE <<"0">>, LAMBDA intPart :
         Let(IF Len(str) > -d.exp
             THEN SubSeq(str, Len(str) + d.exp + 1, Len(str))
             ELSE str, LAMBDA fractionalPart :
         Let(IF Len(fractionalPart) > 0
             THEN intPart \o decSeparator \o fractionalPart
             ELSE intPart, LAMBDA number :
             IF Sign(d) = SignNegative THEN <<"-">> \o number ELSE number))))

\* String with a fault: a whole number gets as many zeros as its exponent
String_padsByExponent(d) ==
    IF d.exp >= 0
    THEN Let(bigString(rescale(d, 0).value), LAMBDA intPart :
         Let(IF d.exp > 0 THEN d.exp ELSE 1, LAMBDA prec :
             intPart \o decSeparator \o Repeat("0", prec)))
    ELSE String_noPadding(d)

String(d) ==
    IF d.exp >= 0
    THEN Let(bigString(rescale(d, 0).value), LAMBDA intPart :
         Let(IF roundPrec(d) > 0 THEN roundPrec(d) ELSE 1, LAMBDA prec :
             intPart \o decSeparator \o Repeat("0", prec)))
    ELSE Let(natString(bigAbs(d.value).abs), LAMBDA str :
         Let(IF Len(str) > -d.exp
             THEN SubSeq(str, 1, Len(str) + d.exp)
             ELSE <<"0">>, LAMBDA intPart :
         Let(IF Len(str) > -d.exp
             THEN SubSeq(str, Len(str) + d.exp + 1, Len(str))
             ELSE Repeat("0", -d.exp - Len(str)) \o str, LAMBDA fractionalPart :
         Let(IF Len(fractionalPart) > 0
             THEN intPart \o decSeparator \o fractionalPart
             ELSE intPart, LAMBDA number :
             IF Sign(d) = SignNegative THEN <<"-">> \o number ELSE number))))

----------------------------------------------------------------------------
(* The calls.  A call takes its arguments from the input sets below, runs  *)
(* to its end and leaves its arguments and what it returned in the state;  *)
(* a call that panics returns nothing.                                     *)

RoundDownMode == "down"
RoundUpMode == "up"
RoundToNearest == "to_nearest"

Modes == {RoundDownMode, RoundUpMode, RoundToNearest}

Decimals == {buildDecimal(v, e) : v \in -MaxCoef..MaxCoef, e \in -MaxScale..MaxExp}

Divisors == {buildDecimal(v, e) : v \in -MaxDivisor..MaxDivisor, e \in -1..1}

Places == -MaxExp..MaxPlaces

\* the increments of the currency tables, and 0
Increments == {0, 1, 2, 5, 10, 50}

\* the scales of a unit: the small ones, and the division precision
UnitExps == (-MaxUnitScale..0) \cup {-divisionPrecision}

Units == {buildDecimal(c, e) : c \in Increments, e \in UnitExps}

\* operands of 17 significant digits: 0.99999999999999999 and its negation
WideDecimals ==
    {Sub(buildDecimal(s, 0), buildDecimal(s, -divisionPrecision - 1)) : s \in {-1, 1}}

\* whole numbers with two trailing zeros or more, as Round(-2) leaves them
WholeDecimals == {buildDecimal(v, e) : v \in -MaxCoef..MaxCoef, e \in 2..MaxWholeExp}

\* exponents at the ends of the int32 range
FarExps == {MinInt32, MinInt32 + 1, MaxInt32 - 1, MaxInt32}

\* operands with such exponents, as UnmarshalBinary decodes them
FarDecimals == {[value |-> bigNewInt(v), exp |-> e] : v \in -3..3, e \in FarExps}

\* exponents of integer value n >= 0, stored as n and as 10n x 10^-1
PowExponents ==
    {buildDecimal(n, 0) : n \in 0..MaxPow} \cup {buildDecimal(10 * n, -1) : n \in 0..MaxPow}

Alphabet == {"0", "1", "+", "-", ".", "x"}

RECURSIVE TextsOfLen(_)
TextsOfLen(n) ==
    IF n = 0 THEN {<<>>}
    ELSE {Append(t, c) : t \in TextsOfLen(n - 1), c \in Alphabet}

Texts == UNION {TextsOfLen(n) : n \in 0..MaxTextLen}

Panic == "panic"

\* the goroutines calling into the currency registry
NumGoroutines == 2

Goroutines == 1..NumGoroutines

\* a goroutine between two calls
Idle == [pc |-> "idle", call |-> "none", code |-> <<>>, c |-> <<>>, err |-> NoError, after |-> FALSE,
         kind |-> "none"]

Init ==
    /\ pc = "ready"
    /\ op = "none"
    /\ argD = nullDecimal
    /\ argD2 = nullDecimal
    /\ argPlaces = 0
    /\ argMode = ""
    /\ argText = <<>>
    /\ ret = nullDecimal
    /\ retStr = <<>>
    /\ retInt = 0
    /\ err = NoError
    /\ unoficialCurrencies = {}
    /\ goroutines = [g \in Goroutines |-> Idle]
    /\ requested = {}
    /\ returned = {}

\* what a call of `name` with these arguments leaves behind
Returned(name, d, d2, places, mode, panics, result) ==
    /\ pc' = "done"
    /\ op' = name
    /\ argD' = d
    /\ argD2' = d2
    /\ argPlaces' = places
    /\ argMode' = mode
    /\ ret' = IF panics THEN ret ELSE result
    /\ err' = IF panics THEN Panic ELSE NoError
    /\ UNCHANGED <<argText, retStr, retInt>>
    /\ UNCHANGED registryVars

\* quoRem with a fault: a zero divisor is let through
quoRemPanics_overflowOnly(d, d2, precision) ==
    Let(sub32(sub32(d.exp, d2.exp), neg32(precision)), LAMBDA e :
        e > MaxInt32 \/ e < MinInt32)

\* quoRem panics on a zero divisor, and when the exponent e it has computed
\* in int32 is outside the int32 range
quoRemPanics(d, d2, precision) ==
    \/ Sign(d2) = SignNeutral
    \/ Let(sub32(sub32(d.exp, d2.exp), neg32(precision)), LAMBDA e :
           e > MaxInt32 \/ e < MinInt32)

\* Mul panics when the sum of the exponents, taken in int64, is outside int32
MulPanics(d, d2) == overflows32(d.exp, d2.exp)

DivPanics(d, d2) == quoRemPanics(d, d2, divisionPrecision)

\* Mod divides, then multiplies the divisor by the truncated quotient
ModPanics(d, d2) == DivPanics(d, d2) \/ MulPanics(d2, Truncate(Div(d, d2), 0))

\* RoundNearest rounds, takes the remainder by the unit and halves the unit
RoundNearestPanics(d, unit) ==
    Let(Round(d, neg32(unit.exp)), LAMBDA rounded :
        \/ ModPanics(rounded, unit)
        \/ DivPanics(IF Sign(rounded) = SignNegative THEN Neg(unit) ELSE unit,
                     buildDecimal(2, 0)))

MoneyRoundPanics(x, unit, mode) ==
    Let(neg32(Exponent(unit)), LAMBDA prec :
        CASE mode = "down" -> ModPanics(RoundDown(x, prec), unit)
          [] mode = "up" -> ModPanics(RoundUp(x, prec), unit)
          [] mode = "to_nearest" -> RoundNearestPanics(x, unit)
          [] OTHER -> FALSE)

CallDiv ==
    /\ pc = "ready"
    /\ \E d \in Decimals, d2 \in Divisors :
          Returned("Div", d, d2, 0, "", DivPanics(d, d2), Div(d, d2))

CallRound ==
    /\ pc = "ready"
    /\ \E d \in Decimals, places \in Places :
          Returned("Round", d, nullDecimal, places, "", FALSE, Round(d, places))

CallRoundUp ==
    /\ pc = "ready"
    /\ \E d \in Decimals, places \in Places :
          Returned("RoundUp", d, nullDecimal, places, "", FALSE, RoundUp(d, places))

CallRoundDown ==
    /\ pc = "ready"
    /\ \E d \in Decimals, places \in Places :
          Returned("RoundDown", d, nullDecimal, places, "", FALSE,
                   RoundDown(d, places))

CallRoundNearest ==
    /\ pc = "ready"
    /\ \E d \in Decimals, unit \in Units :
          Returned("RoundNearest", d, unit, 0, "", RoundNearestPanics(d, unit),
                   RoundNearest(d, unit))

CallMoneyRound ==
    /\ pc = "ready"
    /\ \E x \in Decimals, unit \in Units, mode \in Modes :
          Returned("MoneyRound", x, unit, 0, mode, MoneyRoundPanics(x, unit, mode),
                   MoneyRound(x, unit, mode))

CallAdd ==
    /\ pc = "ready"
    /\ \E d \in Decimals, d2 \in Divisors :
          Returned("Add", d, d2, 0, "", FALSE, Add(d, d2))

CallSub ==
    /\ pc = "ready"
    /\ \E d \in Decimals, d2 \in Divisors :
          Returned("Sub", d, d2, 0, "", FALSE, Sub(d, d2))

CallMul ==
    /\ pc = "ready"
    /\ \E d \in Decimals, d2 \in Divisors :
          Returned("Mul", d, d2, 0, "", MulPanics(d, d2), Mul(d, d2))

CallMod ==
    /\ pc = "ready"
    /\ \E d \in Decimals \cup WideDecimals, d2 \in Divisors :
          Returned("Mod", d, d2, 0, "", ModPanics(d, d2), Mod(d, d2))

CallFloor ==
    /\ pc = "ready"
    /\ \E d \in Decimals :
          Returned("Floor", d, nullDecimal, 0, "", FALSE, Floor(d))

CallCeil ==
    /\ pc = "ready"
    /\ \E d \in Decimals :
          Returned("Ceil", d, nullDecimal, 0, "", FALSE, Ceil(d))

CallPow ==
    /\ pc = "ready"
    /\ \E d \in Decimals, d2 \in PowExponents :
          Returned("Pow", d, d2, 0, "", FALSE, Pow(d, d2))

CallCmp ==
    /\ pc = "ready"
    /\ \E d \in Decimals, d2 \in Divisors :
          /\ pc' = "done"
          /\ op' = "Cmp"
          /\ argD' = d
          /\ argD2' = d2
          /\ retInt' = Cmp(d, d2)
          /\ UNCHANGED <<argPlaces, argMode, argText, ret, retStr, err>>
          /\ UNCHANGED registryVars

CallParseDecimal ==
    /\ pc = "ready"
    /\ \E value \in Texts :
          /\ pc' = "done"
          /\ op' = "ParseDecimal"
          /\ argText' = value
          /\ ret' = ParseDecimal(value).d
          /\ err' = ParseDecimal(value).err
          /\ UNCHANGED <<argD, argD2, argPlaces, argMode, retStr, retInt>>
          /\ UNCHANGED registryVars

\* String() of a Decimal built by the arithmetic
CallString ==
    /\ pc = "ready"
    /\ \E d \in Decimals :
          /\ pc' = "done"
          /\ op' = "String"
          /\ argD' = d
          /\ retStr' = String(d)
          /\ UNCHANGED <<argD2, argPlaces, argMode, argText, ret, retInt, err>>
          /\ UNCHANGED registryVars

\* String() of a whole number with a positive exponent
CallStringWhole ==
    /\ pc = "ready"
    /\ \E d \in WholeDecimals :
          /\ pc' = "done"
          /\ op' = "String"
          /\ argD' = d
          /\ retStr' = String(d)
          /\ UNCHANGED <<argD2, argPlaces, argMode, argText, ret, retInt, err>>
          /\ UNCHANGED registryVars

\* String() of the Decimal that ParseDecimal has just returned
CallParsedString ==
    /\ pc = "done"
    /\ op = "ParseDecimal"
    /\ err = NoError
    /\ pc' = "done"
    /\ op' = "ParsedString"
    /\ argD' = ret
    /\ retStr' = String(ret)
    /\ UNCHANGED <<argD2, argPlaces, argMode, argText, ret, retInt, err>>
    /\ UNCHANGED registryVars

\* Pow panics where one of its divisions does: by d, for an odd negative
\* exponent on the way down
RECURSIVE PowPanics(_, _)
PowPanics(d, d2) ==
    IF IntPart(d2) = 0 THEN FALSE
    ELSE Let(Div(d2, buildDecimal(2, 0)), LAMBDA half :
             \/ PowPanics(d, half)
             \/ /\ IntPart(d2) % 2 # 0
                /\ IntPart(d2) < 0
                /\ Let(Pow(d, half), LAMBDA temp : DivPanics(Mul(temp, temp), d)))

\* exponents of integer value -n, n > 0
NegativePowExponents == {buildDecimal(-n, 0) : n \in 1..MaxPow}

\* Pow to a negative exponent
CallPowNegative ==
    /\ pc = "ready"
    /\ \E d \in Decimals, d2 \in NegativePowExponents :
          Returned("PowNegative", d, d2, 0, "", PowPanics(d, d2), Pow(d, d2))

\* the package-level Add, Sub, Mul and Div on two Money values: each
\* returns a pointer to a Money that was never filled in
MoneyAdd(x, y) == [Amount |-> nullDecimal, Currency |-> <<>>]

MoneySub(x, y) == [Amount |-> nullDecimal, Currency |-> <<>>]

MoneyMul(x, y) == [Amount |-> nullDecimal, Currency |-> <<>>]

MoneyDiv(x, y) == [Amount |-> nullDecimal, Currency |-> <<>>]

\* amounts in hundredths, all in US dollars
MoneyValues ==
    {[Amount |-> buildDecimal(v, -2), Currency |-> <<"U", "S", "D">>] :
        v \in -MaxDivisor..MaxDivisor}

\* what a call of a Money operation leaves behind: the amounts in argD and
\* argD2, the currency of x in argText, the result in ret and retStr
MoneyReturned(name, x, y, z) ==
    /\ pc' = "done"
    /\ op' = name
    /\ argD' = x.Amount
    /\ argD2' = y.Amount
    /\ argText' = x.Currency
    /\ ret' = z.Amount
    /\ retStr' = z.Currency
    /\ UNCHANGED <<argPlaces, argMode, retInt, err>>
    /\ UNCHANGED registryVars

CallMoneyAdd ==
    /\ pc = "ready"
    /\ \E x \in MoneyValues, y \in MoneyValues :
          MoneyReturned("MoneyAdd", x, y, MoneyAdd(x, y))

CallMoneySub ==
    /\ pc = "ready"
    /\ \E x \in MoneyValues, y \in MoneyValues :
          MoneyReturned("MoneySub", x, y, MoneySub(x, y))

CallMoneyMul ==
    /\ pc = "ready"
    /\ \E x \in MoneyValues, y \in MoneyValues :
          MoneyReturned("MoneyMul", x, y, MoneyMul(x, y))

CallMoneyDiv ==
    /\ pc = "ready"
    /\ \E x \in MoneyValues, y \in MoneyValues :
          MoneyReturned("MoneyDiv", x, y, MoneyDiv(x, y))

\* the caller takes the result; the next call starts afresh
Return ==
    /\ pc = "done"
    /\ pc' = "ready"
    /\ op' = "none"
    /\ argD' = nullDecimal
    /\ argD2' = nullDecimal
    /\ argPlaces' = 0
    /\ argMode' = ""
    /\ argText' = <<>>
    /\ ret' = nullDecimal
    /\ retStr' = <<>>
    /\ retInt' = 0
    /\ err' = NoError
    /\ UNCHANGED registryVars

Next ==
    \/ CallDiv
    \/ CallRound
    \/ CallRoundUp
    \/ CallRoundDown
    \/ CallRoundNearest
    \/ CallMoneyRound
    \/ CallAdd
    \/ CallSub
    \/ CallMul
    \/ CallMod
    \/ CallFloor
    \/ CallCeil
    \/ CallPow
    \/ CallCmp
    \/ CallParseDecimal
    \/ CallString
    \/ CallStringWhole
    \/ CallParsedString
    \/ CallPowNegative
    \/ CallMoneyAdd
    \/ CallMoneySub
    \/ CallMoneyMul
    \/ CallMoneyDiv
    \/ Return

Spec == Init /\ [][Next]_vars

----------------------------------------------------------------------------
(* Currencies.  A code is a text; the registry of unofficial codes is a    *)
(* concurrent map shared by every goroutine: a goroutine reads or writes   *)
(* it in one step, and everything else a call does is local to it.         *)

ErrInvalidCurrency == "ErrInvalidCurrency"

nullCurrency == <<>>

\* strings.ToUpper, on the letters the codes of the model are made of
ToUpperRune(r) ==
    CASE r = "e" -> "E"
      [] r = "t" -> "T"
      [] r = "h" -> "H"
      [] r = "u" -> "U"
      [] r = "s" -> "S"
      [] r = "d" -> "D"
      [] OTHER -> r

ToUpper(s) == [i \in 1..Len(s) |-> ToUpperRune(s[i])]

RECURSIVE TrimLeft(_)
TrimLeft(s) == IF s # <<>> /\ Head(s) = " " THEN TrimLeft(Tail(s)) ELSE s

RECURSIVE TrimRight(_)
TrimRight(s) == IF s # <<>> /\ s[Len(s)] = " " THEN TrimRight(SubSeq(s, 1, Len(s) - 1)) ELSE s

TrimSpace(s) == TrimRight(TrimLeft(s))

\* a variant that keeps the letter case of the text
normalise_keepsCase(s) == TrimSpace(s)

\* the form in which ParseCurrency and RegisterUnoficialCurrency take a code
normalise(s) == TrimSpace(ToUpper(s))

\* the ISO 4217 table, cut down to one code
ISOCodes == {<<"U", "S", "D">>}

\* currency.ParseISO accepts a code of the table in any letter case and
\* names it in upper case
ParseISO(s) ==
    IF ToUpper(s) \in ISOCodes
    THEN [u |-> ToUpper(s), err |-> NoError]
    ELSE [u |-> <<>>, err |-> "currency: tag is not a recognized currency"]

\* sync.Map, holding only the value true: the set of its keys
Load(m, key) == key \in m

\* a variant that forgets the keys stored before
Store_forgetful(m, key) == {key}

Store(m, key) == m \cup {key}

\* ParseCurrency reading the registry m
ParseCurrency(value, m) ==
    Let(normalise(value), LAMBDA s :
        IF Load(m, s) THEN [c |-> s, err |-> NoError]
        ELSE Let(ParseISO(s), LAMBDA r :
                 IF r.err # NoError THEN [c |-> nullCurrency, err |-> ErrInvalidCurrency]
                 ELSE [c |-> r.u, err |-> NoError]))

\* Currency.Validate
CurrencyValidate(c, m) == ParseCurrency(c, m).err

\* Decimal.Validate
DecimalValidate(d) == NoError

\* Money.Validate
MoneyValidate(x, m) ==
    IF CurrencyValidate(x.Currency, m) # NoError THEN CurrencyValidate(x.Currency, m)
    ELSE DecimalValidate(x.Amount)

\* the texts handed to the registry: nothing, a space, an unofficial code
\* in lower case, the same in upper case between spaces, an ISO code in
\* lower case
CurrencyTexts ==
    { <<>>,
      <<" ">>,
      <<"e", "t", "h">>,
      <<" ", "E", "T", "H", " ">>,
      <<"u", "s", "d">> }

\* the currencies of the Money values validated: none, and an ISO code
MoneyCurrencies == {<<>>, <<"U", "S", "D">>}

\* the code a text stands for: trimmed and in upper case
CodeOf(s) == ToUpper(TrimSpace(s))

\* goroutine g starts the call `call` on `code`
Starts(g, call, code) ==
    /\ goroutines[g].pc = "idle"
    /\ goroutines' = [goroutines EXCEPT ![g] =
            [Idle EXCEPT !.pc = "lookup", !.call = call, !.code = code,
                         !.after = CodeOf(code) \in returned]]

CallRegisterUnoficialCurrency(g) ==
    /\ \E code \in CurrencyTexts :
          /\ Starts(g, "RegisterUnoficialCurrency", code)
          /\ requested' = requested \cup {CodeOf(code)}
    /\ UNCHANGED <<unoficialCurrencies, returned>>
    /\ UNCHANGED decimalVars

\* the registration parses its code and goes on to store it if that fails
RegisterLookup(g) ==
    /\ goroutines[g].pc = "lookup"
    /\ goroutines[g].call = "RegisterUnoficialCurrency"
    /\ goroutines' = Let(ParseCurrency(normalise(goroutines[g].code), unoficialCurrencies),
           LAMBDA r : [goroutines EXCEPT
               ![g].pc = IF r.err = ErrInvalidCurrency THEN "store" ELSE "done"])
    /\ UNCHANGED <<unoficialCurrencies, requested, returned>>
    /\ UNCHANGED decimalVars

RegisterStore(g) ==
    /\ goroutines[g].pc = "store"
    /\ unoficialCurrencies' = Store(unoficialCurrencies, normalise(goroutines[g].code))
    /\ goroutines' = [goroutines EXCEPT ![g].pc = "done"]
    /\ UNCHANGED <<requested, returned>>
    /\ UNCHANGED decimalVars

CallParseCurrency(g) ==
    /\ \E code \in CurrencyTexts : Starts(g, "ParseCurrency", code)
    /\ UNCHANGED <<unoficialCurrencies, requested, returned>>
    /\ UNCHANGED decimalVars

ParseCurrencyLookup(g) ==
    /\ goroutines[g].pc = "lookup"
    /\ goroutines[g].call = "ParseCurrency"
    /\ goroutines' = Let(ParseCurrency(goroutines[g].code, unoficialCurrencies),
           LAMBDA r : [goroutines EXCEPT ![g].pc = "done", ![g].c = r.c, ![g].err = r.err])
    /\ UNCHANGED <<unoficialCurrencies, requested, returned>>
    /\ UNCHANGED decimalVars

RoundingStandard == "standard"
RoundingCash == "cash"
RoundingAccounting == "accounting"

RoundingKinds == {RoundingStandard, RoundingCash, RoundingAccounting}

\* Currency.currency: the unit of the x/text tables, or a panic
currency(c) ==
    Let(ParseISO(c), LAMBDA r :
        IF r.err # NoError THEN [u |-> <<>>, err |-> Panic]
        ELSE [u |-> r.u, err |-> NoError])

\* Currency.Scale panics when its argument *c.currency() does
ScalePanics(c) == currency(c).err = Panic

\* so does Currency.RoundUnit, for every kind
RoundUnitPanics(c, kind) == currency(c).err = Panic

\* Scale() on the Currency that the ParseCurrency of goroutine g has just
\* returned without an error
CallScale(g) ==
    /\ goroutines[g].pc = "done"
    /\ goroutines[g].call = "ParseCurrency"
    /\ goroutines[g].err = NoError
    /\ goroutines' = [goroutines EXCEPT ![g].call = "Scale",
           ![g].err = IF ScalePanics(goroutines[g].c) THEN Panic ELSE NoError]
    /\ UNCHANGED <<unoficialCurrencies, requested, returned>>
    /\ UNCHANGED decimalVars

\* RoundUnit(kind) on that Currency
CallRoundUnit(g) ==
    /\ goroutines[g].pc = "done"
    /\ goroutines[g].call = "ParseCurrency"
    /\ goroutines[g].err = NoError
    /\ \E kind \in RoundingKinds :
          goroutines' = [goroutines EXCEPT ![g].call = "RoundUnit", ![g].kind = kind,
              ![g].err = IF RoundUnitPanics(goroutines[g].c, kind) THEN Panic ELSE NoError]
    /\ UNCHANGED <<unoficialCurrencies, requested, returned>>
    /\ UNCHANGED decimalVars

\* Validate on a Money of the zero amount
CallValidate(g) ==
    /\ \E code \in MoneyCurrencies : Starts(g, "Validate", code)
    /\ UNCHANGED <<unoficialCurrencies, requested, returned>>
    /\ UNCHANGED decimalVars

ValidateLookup(g) ==
    /\ goroutines[g].pc = "lookup"
    /\ goroutines[g].call = "Validate"
    /\ goroutines' = [goroutines EXCEPT ![g].pc = "done",
           ![g].err = MoneyValidate([Currency |-> goroutines[g].code, Amount |-> nullDecimal],
                                    unoficialCurrencies)]
    /\ UNCHANGED <<unoficialCurrencies, requested, returned>>
    /\ UNCHANGED decimalVars

\* the call of goroutine g returns to its caller
GoReturn(g) ==
    /\ goroutines[g].pc = "done"
    /\ goroutines' = [goroutines EXCEPT ![g] = Idle]
    /\ returned' = IF goroutines[g].call = "RegisterUnoficialCurrency"
                   THEN returned \cup {CodeOf(goroutines[g].code)}
                   ELSE returned
    /\ UNCHANGED <<unoficialCurrencies, requested>>
    /\ UNCHANGED decimalVars

NextRegistry ==
    \/ \E g \in Goroutines : CallRegisterUnoficialCurrency(g)
    \/ \E g \in Goroutines : RegisterLookup(g)
    \/ \E g \in Goroutines : RegisterStore(g)
    \/ \E g \in Goroutines : CallParseCurrency(g)
    \/ \E g \in Goroutines : ParseCurrencyLookup(g)
    \/ \E g \in Goroutines : CallScale(g)
    \/ \E g \in Goroutines : CallRoundUnit(g)
    \/ \E g \in Goroutines : CallValidate(g)
    \/ \E g \in Goroutines : ValidateLookup(g)
    \/ \E g \in Goroutines : GoReturn(g)

SpecRegistry == Init /\ [][NextRegistry]_vars

----------------------------------------------------------------------------
(* Encoding and decoding.  A decode method has a receiver, the Decimal or  *)
(* Currency it is called on, and returns an error; the model keeps the     *)
(* receiver before the call in argD, the receiver after it in ret (retStr  *)
(* for a Currency) and the data in argText.                                *)

Quote == "\""

ErrParsingDecimal == "Error parsing money/decimal"

ErrParsingCurrency == "Error parsing money/currency"

ErrDecodingString == "Error decoding string"

\* the data is longer than two bytes and stands between quotes
IsQuoted(data) == Len(data) > 2 /\ data[1] = Quote /\ data[Len(data)] = Quote

\* Decimal.UnmarshalJSON on the receiver d: the receiver and the error after it
UnmarshalJSON(d, data) ==
    IF IsQuoted(data)
    THEN Let(ParseDecimal(SubSeq(data, 2, Len(data) - 1)), LAMBDA parsed :
             IF parsed.err # NoError THEN [d |-> d, err |-> ErrParsingDecimal]
             ELSE [d |-> parsed.d, err |-> NoError])
    ELSE [d |-> d, err |-> NoError]

MarshalJSON(d) == <<Quote>> \o String(d) \o <<Quote>>

\* Currency.UnmarshalJSON on the receiver c, reading the registry m
CurrencyUnmarshalJSON(c, data, m) ==
    IF IsQuoted(data)
    THEN Let(ParseCurrency(SubSeq(data, 2, Len(data) - 1), m), LAMBDA parsed :
             IF parsed.err # NoError THEN [c |-> c, err |-> ErrParsingCurrency]
             ELSE [c |-> parsed.c, err |-> NoError])
    ELSE [c |-> c, err |-> NoError]

\* Decimal.UnmarshalText: the receiver is assigned before the error is looked at
UnmarshalText(d, text) ==
    Let(ParseDecimal(text), LAMBDA parsed :
        [d |-> parsed.d,
         err |-> IF parsed.err # NoError THEN ErrDecodingString ELSE NoError])

MarshalText(d) == String(d)

\* binary.BigEndian.PutUint32 of uint32(exp): four bytes, the sign bit of
\* the int32 at the top of the first
PutUint32(exp) ==
    Let(IF exp < 0 THEN exp - MinInt32 ELSE exp, LAMBDA low :
        << (low \div 16777216) + (IF exp < 0 THEN 128 ELSE 0),
           (low \div 65536) % 256,
           (low \div 256) % 256,
           low % 256 >>)

\* the bytes read as an int32 with a fault: the sign bit is dropped
Uint32_unsigned(b) == (b[1] % 128) * 16777216 + b[2] * 65536 + b[3] * 256 + b[4]

\* int32(binary.BigEndian.Uint32(b))
Uint32(b) ==
    Let((b[1] % 128) * 16777216 + b[2] * 65536 + b[3] * 256 + b[4], LAMBDA low :
        IF b[1] >= 128 THEN low + MinInt32 ELSE low)

\* nat.bytes: the bytes of a, the most significant first, no leading zero
RECURSIVE natBytes(_)
natBytes(a) ==
    IF a = <<>> THEN <<>>
    ELSE Let(natDivW(a, 256), LAMBDA qr : natBytes(qr.q) \o <<natToInt(qr.r)>>)

\* nat.setBytes: the number whose bytes are the first i of buf
RECURSIVE natSetBytesAt(_, _)
natSetBytesAt(buf, i) ==
    IF i = 0 THEN <<>>
    ELSE Let(natSetBytesAt(buf, i - 1), LAMBDA high :
             natAdd(natMulW(high, 256), natFromInt(buf[i])))

natSetBytes(buf) == natSetBytesAt(buf, Len(buf))

ErrGobVersion == "Int.GobDecode: encoding version not supported"

\* big.Int.GobEncode: a byte holding the version 1 and the sign bit, then
\* the bytes of the magnitude
bigGobEncode(x) == <<2 + (IF x.neg THEN 1 ELSE 0)>> \o natBytes(x.abs)

\* big.Int.GobDecode into z: empty data is zero, another version is an
\* error that leaves z alone, and the sign is taken from the data as it is
bigGobDecode(z, buf) ==
    IF Len(buf) = 0 THEN [z |-> bigNewInt(0), err |-> NoError]
    ELSE IF buf[1] \div 2 # 1 THEN [z |-> z, err |-> ErrGobVersion]
    ELSE [z |-> [neg |-> buf[1] % 2 # 0, abs |-> natSetBytes(Tail(buf))],
          err |-> NoError]

MarshalBinary(d) == PutUint32(d.exp) \o bigGobEncode(d.value)

\* Decimal.UnmarshalBinary: the exponent is stored and the coefficient is
\* cleared before the coefficient is decoded; data shorter than the
\* exponent cannot be sliced
UnmarshalBinary(d, data) ==
    IF Len(data) < 4 THEN [d |-> d, err |-> Panic]
    ELSE Let(bigGobDecode(bigNewInt(0), SubSeq(data, 5, Len(data))), LAMBDA decoded :
             [d |-> [value |-> decoded.z, exp |-> Uint32(SubSeq(data, 1, 4))],
              err |-> decoded.err])

GobEncode(d) == MarshalBinary(d)

GobDecode(d, data) == UnmarshalBinary(d, data)

\* the four encodings
Codecs == {"JSON", "Text", "Binary", "Gob"}

Marshal(codec, d) ==
    CASE codec = "JSON" -> MarshalJSON(d)
      [] codec = "Text" -> MarshalText(d)
      [] codec = "Binary" -> MarshalBinary(d)
      [] codec = "Gob" -> GobEncode(d)

Unmarshal(codec, d, data) ==
    CASE codec = "JSON" -> UnmarshalJSON(d, data)
      [] codec = "Text" -> UnmarshalText(d, data)
      [] codec = "Binary" -> UnmarshalBinary(d, data)
      [] codec = "Gob" -> GobDecode(d, data)

\* the Decimals encoded: the small ones and those of 17 digits in every
\* encoding, those with far exponents in the binary ones
Encodable(codec) ==
    IF codec \in {"Binary", "Gob"}
    THEN Decimals \cup WideDecimals \cup FarDecimals
    ELSE Decimals \cup WideDecimals

\* the longest text put between the quotes of a JSON value
MaxJSONLen == 3

Quoted(t) == <<Quote>> \o t \o <<Quote>>

\* JSON data for a Decimal: texts bare and between quotes, and null
JSONTexts ==
    LET short == UNION {TextsOfLen(n) : n \in 0..MaxJSONLen}
    IN  short \cup {Quoted(t) : t \in short} \cup {<<"n", "u", "l", "l">>}

\* JSON data for a Currency: codes bare and between quotes, and null
CurrencyJSONTexts ==
    LET codes == CurrencyTexts \cup {<<"U", "S", "D">>, <<"E", "T", "H">>}
    IN  codes \cup {Quoted(t) : t \in codes} \cup {<<"n", "u", "l", "l">>}

\* the receivers of a decode: the zero value, and a Decimal holding 2.5
Receivers == {nullDecimal, buildDecimal(25, -1)}

\* what a decode of `data` into the receiver d leaves behind
Decoded(name, d, data, result) ==
    /\ pc' = "done"
    /\ op' = name
    /\ argD' = d
    /\ argText' = data
    /\ ret' = result.d
    /\ err' = result.err
    /\ UNCHANGED <<argD2, argPlaces, argMode, retStr, retInt>>
    /\ UNCHANGED registryVars

CallUnmarshalJSON ==
    /\ pc = "ready"
    /\ \E d \in Receivers, data \in JSONTexts :
          Decoded("UnmarshalJSON", d, data, UnmarshalJSON(d, data))

CallUnmarshalText ==
    /\ pc = "ready"
    /\ \E d \in Receivers, text \in Texts :
          Decoded("UnmarshalText", d, text, UnmarshalText(d, text))

\* Currency.UnmarshalJSON into a Currency that holds nothing yet
CallCurrencyUnmarshalJSON ==
    /\ pc = "ready"
    /\ \E data \in CurrencyJSONTexts :
          /\ pc' = "done"
          /\ op' = "Currency.UnmarshalJSON"
          /\ argText' = data
          /\ retStr' = CurrencyUnmarshalJSON(nullCurrency, data, unoficialCurrencies).c
          /\ err' = CurrencyUnmarshalJSON(nullCurrency, data, unoficialCurrencies).err
          /\ UNCHANGED <<argD, argD2, argPlaces, argMode, ret, retInt>>
          /\ UNCHANGED registryVars

\* binary data: an exponent followed by nothing, by a coefficient of
\* version 1, or by one of another version; and data too short to hold an
\* exponent
BinaryData ==
    {PutUint32(e) \o rest :
        e \in {0, -2, MinInt32},
        rest \in {<<>>, <<2>>, <<3, 7>>, <<2, 1, 0>>, <<0>>, <<4, 1>>, <<255, 255>>}}
    \cup {<<>>, <<0, 0, 0>>}

CallUnmarshalBinary ==
    /\ pc = "ready"
    /\ \E d \in Receivers, data \in BinaryData :
          Decoded("UnmarshalBinary", d, data, UnmarshalBinary(d, data))

CallGobDecode ==
    /\ pc = "ready"
    /\ \E d \in Receivers, data \in BinaryData :
          Decoded("GobDecode", d, data, GobDecode(d, data))

\* an encoding of d; the data is left in retStr
CallMarshal ==
    /\ pc = "ready"
    /\ \E codec \in Codecs :
          \E d \in Encodable(codec) :
             /\ pc' = "done"
             /\ op' = "Marshal"
             /\ argMode' = codec
             /\ argD' = d
             /\ retStr' = Marshal(codec, d)
             /\ UNCHANGED <<argD2, argPlaces, argText, ret, retInt, err>>
             /\ UNCHANGED registryVars

\* the data just encoded is decoded into a fresh Decimal
CallUnmarshal ==
    /\ pc = "done"
    /\ op = "Marshal"
    /\ pc' = "done"
    /\ op' = "Unmarshal"
    /\ argText' = retStr
    /\ ret' = Unmarshal(argMode, nullDecimal, retStr).d
    /\ err' = Unmarshal(argMode, nullDecimal, retStr).err
    /\ UNCHANGED <<argD, argD2, argPlaces, argMode, retStr, retInt>>
    /\ UNCHANGED registryVars

NextCodec ==
    \/ CallUnmarshalJSON
    \/ CallUnmarshalText
    \/ CallCurrencyUnmarshalJSON
    \/ CallUnmarshalBinary
    \/ CallGobDecode
    \/ CallMarshal
    \/ CallUnmarshal
    \/ Return

SpecCodec == Init /\ [][NextCodec]_vars

----------------------------------------------------------------------------
(* Exponents at the ends of the int32 range.  Such a Decimal comes out of  *)
(* UnmarshalBinary, which takes the exponent from the data as it is.  The  *)
(* operands are paired so that no power of ten beyond 10^18 is needed.     *)

\* operands with exponents about zero, multiplied with the far ones
NearDecimals == {buildDecimal(v, e) : v \in {-2, 1}, e \in -1..1}

FarPlaces == FarExps

\* the exponents are on the same side of zero, at most two apart
Close(e1, e2) ==
    /\ (e1 > 0) = (e2 > 0)
    /\ (IF e1 >= e2 THEN e1 - e2 ELSE e2 - e1) <= 2

CallMulFar ==
    /\ pc = "ready"
    /\ \E d \in FarDecimals, d2 \in FarDecimals \cup NearDecimals :
          Returned("Mul", d, d2, 0, "", MulPanics(d, d2), Mul(d, d2))

CallDivFar ==
    /\ pc = "ready"
    /\ \E d \in FarDecimals, d2 \in FarDecimals :
          Returned("Div", d, d2, 0, "", DivPanics(d, d2), Div(d, d2))

\* Round to a number of places that brings the exponent close to the
\* operand's
CallRoundFar ==
    /\ pc = "ready"
    /\ \E d \in FarDecimals, places \in FarPlaces :
          /\ Close(d.exp, sub32(neg32(places), 1))
          /\ Returned("Round", d, nullDecimal, places, "", FALSE, Round(d, places))

NextFar ==
    \/ CallMulFar
    \/ CallDivFar
    \/ CallRoundFar
    \/ Return

SpecFar == Init /\ [][NextFar]_vars

----------------------------------------------------------------------------
(* The properties.  Values are compared as integers counted in units of    *)
(* 10^e, e being no greater than any exponent involved: machine integers   *)
(* where the values are small, math/big integers where a unit may have the *)
(* scale of the division precision.                                        *)

scaled(d, e) == bigInt64(d.value) * pow10(d.exp - e)

absInt(n) == IF n < 0 THEN -n ELSE n

min3(x, y, z) == min(x, min(y, z))

scaledBig(d, e) == bigMulExp10(d.value, d.exp - e)

\* r is an integer multiple of u, u not zero
IsMultiple(r, u) == bigSign(bigQuoRem(r, u).r) = 0

\* twice the distance between r and n
TwiceDistance(r, n) == bigLsh1(bigAbs(bigSub(r, n)))

Returns(name) == pc = "done" /\ op = name /\ err = NoError

\* the unit has a positive coefficient
PositiveUnit == Sign(argD2) = SignPositive

\* C1: for every dividend and every non-zero divisor, of either sign, Div
\* returns the quotient rounded half away from zero at 16 fractional
\* digits: the result is within half a unit in the last place of the exact
\* quotient, and an exact half is moved away from zero.
C1_DivRoundsHalfAwayFromZero ==
    Returns("Div") =>
        /\ ret.exp = -divisionPrecision
        /\ LET diff == Abs(Sub(Mul(ret, argD2), argD))
               ulp == buildDecimal(1, -divisionPrecision)
               c == Cmp(Add(diff, diff), Mul(ulp, Abs(argD2)))
           IN  /\ c <= 0
               /\ c = 0 => Cmp(Abs(Mul(ret, argD2)), Abs(argD)) > 0

\* -2 / 3 comes out as -0.6666666666666665: the remainder is more than half
\* the divisor and the quotient is moved toward zero
C1_FailingInput ==
    /\ Returns("Div")
    /\ argD = buildDecimal(-2, 0)
    /\ argD2 = buildDecimal(3, 0)
    /\ ret = [value |-> bigMake(TRUE, <<6665, 6666, 6666, 6666>>),
              exp |-> -divisionPrecision]

\* C2: for every x and every unit with a positive coefficient, RoundNearest
\* and Round(x, unit, RoundToNearest) return an integer multiple of unit
\* such that no other multiple of unit is strictly closer to x.
C2_RoundNearestIsNearestMultiple ==
    (/\ Returns("RoundNearest") \/ (Returns("MoneyRound") /\ argMode = RoundToNearest)
     /\ PositiveUnit) =>
        LET e == min3(argD.exp, argD2.exp, ret.exp)
            n == scaledBig(argD, e)
            u == scaledBig(argD2, e)
            r == scaledBig(ret, e)
        IN  /\ IsMultiple(r, u)
            /\ bigCmp(TwiceDistance(r, n), u) <= 0

\* 0.014 to the unit 0.02 comes out as 0.00, and 0.02 is closer
C2_FailingInput ==
    /\ Returns("RoundNearest")
    /\ argD = buildDecimal(14, -3)
    /\ argD2 = buildDecimal(2, -2)
    /\ ret = buildDecimal(0, -2)

\* C3: when x lies exactly halfway between two consecutive multiples of
\* unit, RoundNearest returns the multiple of greater magnitude, for both
\* signs of x and every unit with a positive coefficient, even increment
\* coefficients included.
C3_RoundNearestTieAwayFromZero ==
    (Returns("RoundNearest") /\ PositiveUnit) =>
        LET e == min3(argD.exp, argD2.exp, ret.exp)
            n == scaledBig(argD, e)
            u == scaledBig(argD2, e)
            r == scaledBig(ret, e)
        IN  (IsMultiple(bigLsh1(n), u) /\ ~IsMultiple(n, u)) =>
                /\ IsMultiple(r, u)
                /\ bigCmp(TwiceDistance(r, n), u) = 0
                /\ bigCmp(bigAbs(r), bigAbs(n)) > 0

\* 0.15 to the unit 0.10 comes out as 0.10, the multiple nearer to zero
C3_FailingInput ==
    /\ Returns("RoundNearest")
    /\ argD = buildDecimal(15, -2)
    /\ argD2 = buildDecimal(10, -2)
    /\ ret = buildDecimal(10, -2)

\* C4: for every d and every places (positive, zero or negative),
\* d.Round(places) is the multiple of 10^(-places) nearest to d, an exact
\* half being rounded away from zero for both signs, and the result carries
\* exponent -places.
C4_RoundIsNearestHalfAwayFromZero ==
    Returns("Round") =>
        /\ ret.exp = -argPlaces
        /\ LET e == min(argD.exp, -argPlaces)
               n == scaled(argD, e)
               u == pow10(-argPlaces - e)
               r == scaled(ret, e)
           IN  /\ 2 * absInt(r - n) <= u
               /\ 2 * absInt(r - n) = u => absInt(r) > absInt(n)

\* a tie of a negative value at a negative number of places: -25 to tens
C4_Witness ==
    /\ Returns("Round")
    /\ argD = buildDecimal(-25, 0)
    /\ argPlaces = -1
    /\ ret = buildDecimal(-3, 1)

\* C5: for every x and every unit with a positive coefficient,
\* Round(x, unit, RoundUp) returns the next increment: an integer multiple
\* of unit that is >= x and less than x + unit, also when the increment
\* coefficient is not 1.
C5_MoneyRoundUpIsNextIncrement ==
    (Returns("MoneyRound") /\ argMode = RoundUpMode /\ PositiveUnit) =>
        LET e == min3(argD.exp, argD2.exp, ret.exp)
            n == scaledBig(argD, e)
            u == scaledBig(argD2, e)
            r == scaledBig(ret, e)
        IN  /\ IsMultiple(r, u)
            /\ bigCmp(r, n) >= 0
            /\ bigCmp(r, bigAdd(n, u)) < 0

\* 0.11 up to the increment 0.05 comes out as 0.12, no multiple of 0.05
C5_FailingInput ==
    /\ Returns("MoneyRound")
    /\ argMode = RoundUpMode
    /\ argD = buildDecimal(11, -2)
    /\ argD2 = buildDecimal(5, -2)
    /\ ret = buildDecimal(12, -2)

\* C6: for every x of either sign and every unit with a positive
\* coefficient, Round(x, unit, RoundDown) returns the previous increment:
\* an integer multiple of unit that is <= x and greater than x - unit.
C6_MoneyRoundDownIsPreviousIncrement ==
    (Returns("MoneyRound") /\ argMode = RoundDownMode /\ PositiveUnit) =>
        LET e == min3(argD.exp, argD2.exp, ret.exp)
            n == scaledBig(argD, e)
            u == scaledBig(argD2, e)
            r == scaledBig(ret, e)
        IN  /\ IsMultiple(r, u)
            /\ bigCmp(r, n) <= 0
            /\ bigCmp(r, bigSub(n, u)) > 0

\* -0.13 down to the increment 0.05 comes out as -0.10, above -0.13
C6_FailingInput ==
    /\ Returns("MoneyRound")
    /\ argMode = RoundDownMode
    /\ argD = buildDecimal(-13, -2)
    /\ argD2 = buildDecimal(5, -2)
    /\ ret = buildDecimal(-10, -2)

C8_RoundIsIdempotent ==
    Returns("Round") => Round(ret, argPlaces) = ret

\* 1.5 rounded to an integer and rounded again
C8_Witness ==
    /\ Returns("Round")
    /\ argD = buildDecimal(15, -1)
    /\ argPlaces = 0
    /\ ret = buildDecimal(2, 0)
    /\ Round(ret, argPlaces) = buildDecimal(2, 0)

\* C9: rounding to a unit is symmetric in sign: for every x and every unit
\* with a positive coefficient, (-x).RoundNearest(unit) is the negation of
\* x.RoundNearest(unit).
C9_RoundNearestIsSignSymmetric ==
    (Returns("RoundNearest") /\ PositiveUnit) =>
        RoundNearest(Neg(argD), argD2) = Neg(ret)

\* -1 to the unit 0.0000000000000001 comes out as -1.0000000000000001,
\* and 1 to the same unit as 1.0000000000000000
C9_FailingInput ==
    /\ Returns("RoundNearest")
    /\ argD = buildDecimal(-1, 0)
    /\ argD2 = buildDecimal(1, -divisionPrecision)
    /\ ret = [value |-> bigMake(TRUE, <<1, 0, 0, 0, 1>>), exp |-> -divisionPrecision]
    /\ RoundNearest(Neg(argD), argD2) =
           [value |-> bigMake(FALSE, <<0, 0, 0, 0, 1>>), exp |-> -divisionPrecision]

AllDigits(s) == \A i \in 1..Len(s) : IsDigit(s[i])

AllZeros(s) == \A i \in 1..Len(s) : s[i] \in {"0", "."}

\* digits, a point, digits, and no zero before the integer part
CanonicalBody(b) ==
    \E p \in 2..(Len(b) - 1) :
        /\ b[p] = "."
        /\ AllDigits(SubSeq(b, 1, p - 1))
        /\ AllDigits(SubSeq(b, p + 1, Len(b)))
        /\ p > 2 => b[1] # "0"

\* canonical text: an optional sign, then a canonical body
Canonical(t) ==
    \/ CanonicalBody(t)
    \/ Len(t) > 0 /\ t[1] \in {"+", "-"} /\ CanonicalBody(Tail(t))

\* canonical text as String writes it: no plus sign, no minus sign on zero
CanonicalOutput(t) ==
    \/ CanonicalBody(t)
    \/ Len(t) > 0 /\ t[1] = "-" /\ CanonicalBody(Tail(t)) /\ ~AllZeros(Tail(t))

\* C10, as stated: for every canonically formatted text T (optional sign,
\* digits, an explicit point, no extraneous leading zeros), ParseDecimal(T)
\* succeeds and its String() is exactly T.
C10_AnyCanonicalTextRoundTrips ==
    (pc = "done" /\ op \in {"ParseDecimal", "ParsedString"} /\ Canonical(argText)) =>
        /\ err = NoError
        /\ op = "ParsedString" => retStr = argText

\* "+1.0" is written back as "1.0"
C10_PlusSignIsDropped ==
    /\ Returns("ParsedString")
    /\ argText = <<"+", "1", ".", "0">>
    /\ retStr = <<"1", ".", "0">>

\* C10, amended: for every canonical text T that has no plus sign and no
\* minus sign before a zero value, ParseDecimal(T) succeeds and its
\* String() is exactly T, trailing zeros included.
C10_CanonicalOutputRoundTrips ==
    (pc = "done" /\ op \in {"ParseDecimal", "ParsedString"}
       /\ CanonicalOutput(argText)) =>
        /\ err = NoError
        /\ op = "ParsedString" => retStr = argText

\* "-1.00" is parsed and written back with its sign and both zeros
C10_Witness ==
    /\ Returns("ParsedString")
    /\ argText = <<"-", "1", ".", "0", "0">>
    /\ retStr = argText

sgn(n) == IF n < 0 THEN -1 ELSE IF n > 0 THEN 1 ELSE 0

\* third operands of a comparison: 0, and 1 and 10 at several scales
Thirds == {buildDecimal(v, e) : v \in {-10, -1, 0, 1, 10}, e \in -1..1}

\* C11: Cmp orders decimals by numeric value only, whatever the stored
\* exponents: x.Cmp(y) is the sign of value(x) - value(y), Equal holds
\* exactly when the values are equal, Cmp(x, y) = -Cmp(y, x), and
\* Cmp(x, y) <= 0 and Cmp(y, z) <= 0 imply Cmp(x, z) <= 0.
C11_CmpOrdersByValue ==
    Returns("Cmp") =>
        LET e == min(argD.exp, argD2.exp)
            x == scaled(argD, e)
            y == scaled(argD2, e)
        IN  /\ retInt = sgn(x - y)
            /\ Equal(argD, argD2) <=> x = y
            /\ Cmp(argD2, argD) = -retInt
            /\ \A z \in Thirds :
                  (retInt <= 0 /\ Cmp(argD2, z) <= 0) => Cmp(argD, z) <= 0

\* 10 stored as 1 x 10^1 compared with 10 stored as 10 x 10^0: equal
C11_Witness ==
    /\ Returns("Cmp")
    /\ argD = buildDecimal(1, 1)
    /\ argD2 = buildDecimal(10, 0)
    /\ retInt = 0

CountOf(t, c) == Cardinality({i \in 1..Len(t) : t[i] = c})

\* the digits that follow the point, none when there is no point
DigitsAfterPoint(t) ==
    IF \E i \in 1..Len(t) : t[i] = "."
    THEN Len(t) - (CHOOSE i \in 1..Len(t) : t[i] = ".")
    ELSE 0

\* a text the claim has rejected
Malformed(t) ==
    \/ \E i \in 1..Len(t) : ~IsDigit(t[i]) /\ t[i] \notin {"+", "-", "."}
    \/ CountOf(t, ".") > 1
    \/ \E i \in 2..Len(t) : t[i] \in {"+", "-"}
    \/ \A i \in 1..Len(t) : ~IsDigit(t[i])

\* C12: ParseDecimal returns ErrInvalidDecimal for every text that contains
\* a character other than a digit, '+', '-' or '.', that has more than one
\* decimal point, that has a sign anywhere but at the start, or that has no
\* digit at all; for every other text it succeeds and the exponent of the
\* result is minus the number of digits after the point.
C12_ParseDecimalRejectsMalformedText ==
    (pc = "done" /\ op = "ParseDecimal") =>
        IF Malformed(argText)
        THEN err = ErrInvalidDecimal
        ELSE err = NoError /\ ret.exp = -DigitsAfterPoint(argText)

\* ".-1", a sign after the point, is accepted as -1 x 10^-2
C12_FailingInput ==
    /\ Returns("ParseDecimal")
    /\ argText = <<".", "-", "1">>
    /\ ret = buildDecimal(-1, -2)

\* C13: Add, Sub and Mul are exact: value(x.Add(y)) = value(x) + value(y)
\* and value(x.Sub(y)) = value(x) - value(y) with result exponent
\* min(exp(x), exp(y)), and value(x.Mul(y)) = value(x) * value(y) with
\* result exponent exp(x) + exp(y).
C13_AddSubMulAreExact ==
    LET e == min(argD.exp, argD2.exp)
        x == scaled(argD, e)
        y == scaled(argD2, e)
    IN  /\ Returns("Add") => ret.exp = e /\ bigInt64(ret.value) = x + y
        /\ Returns("Sub") => ret.exp = e /\ bigInt64(ret.value) = x - y
        /\ Returns("Mul") =>
              /\ ret.exp = argD.exp + argD2.exp
              /\ bigInt64(ret.value) = bigInt64(argD.value) * bigInt64(argD2.value)

\* 260 (stored 26 x 10^1) minus 1.2: the scales differ by two digits
C13_Witness ==
    /\ Returns("Sub")
    /\ argD = buildDecimal(26, 1)
    /\ argD2 = buildDecimal(12, -1)
    /\ ret = buildDecimal(2588, -1)

\* C14: for every d and every non-zero d2, d.Mod(d2) is the remainder of
\* truncated division: d - Mod is an integer multiple of d2, Mod is zero or
\* has the sign of d, and its magnitude is strictly less than |d2|,
\* whatever the size of the operands.
C14_ModIsTruncatedRemainder ==
    Returns("Mod") =>
        LET e == min3(argD.exp, argD2.exp, ret.exp)
            n == scaledBig(argD, e)
            u == scaledBig(argD2, e)
            r == scaledBig(ret, e)
        IN  /\ IsMultiple(bigSub(n, r), u)
            /\ bigSign(r) = 0 \/ bigSign(r) = bigSign(n)
            /\ bigCmp(bigAbs(r), bigAbs(u)) < 0

\* 0.99999999999999999 mod 1 comes out as -0.00000000000000001
C14_FailingInput ==
    /\ Returns("Mod")
    /\ argD = Sub(buildDecimal(1, 0), buildDecimal(1, -divisionPrecision - 1))
    /\ argD2 = buildDecimal(1, 0)
    /\ ret = buildDecimal(-1, -divisionPrecision - 1)

\* C15: for every Decimal d, of either sign and with a negative, zero or
\* positive exponent, d.Floor() is the greatest integer less than or equal
\* to d: Floor(d) <= d < Floor(d) + 1, with result exponent 0.
C15_FloorIsGreatestIntegerBelow ==
    Returns("Floor") =>
        /\ ret.exp = 0
        /\ LET e == min(argD.exp, 0)
               n == scaled(argD, e)
               r == scaled(ret, e)
           IN  r <= n /\ n < r + pow10(-e)

\* 120 stored as 12 x 10^1: Floor returns 12
C15_FailingInput ==
    /\ Returns("Floor")
    /\ argD = buildDecimal(12, 1)
    /\ ret = buildDecimal(12, 0)

\* C16: for every Decimal d with exponent <= 0, negative values included,
\* d.Ceil() is the least integer greater than or equal to d:
\* Ceil(d) - 1 < d <= Ceil(d).
C16_CeilIsLeastIntegerAbove ==
    (Returns("Ceil") /\ argD.exp <= 0) =>
        /\ ret.exp = 0
        /\ LET e == argD.exp
               n == scaled(argD, e)
               r == scaled(ret, e)
           IN  r - pow10(-e) < n /\ n <= r

\* -1.5 has the remainder 5 and the quotient -2: Ceil returns -1
C16_Witness ==
    /\ Returns("Ceil")
    /\ argD = buildDecimal(-15, -1)
    /\ ret = buildDecimal(-1, 0)

\* x multiplied by itself n times, 1 when n = 0
RECURSIVE Product(_, _)
Product(x, n) == IF n = 0 THEN bigNewInt(1) ELSE bigMul(x, Product(x, n - 1))

\* C17: for every d and every exponent d2 whose value is an integer
\* n >= 0, d.Pow(d2) is d multiplied by itself n times exactly (1 when
\* n = 0), and the recursion that halves the exponent ends: it is no deeper
\* than n.
C17_PowIsRepeatedProduct ==
    Returns("Pow") =>
        LET n == IF argD2.exp = 0 THEN bigInt64(argD2.value)
                 ELSE bigInt64(argD2.value) \div 10
        IN  /\ ret = [value |-> Product(argD.value, n), exp |-> n * argD.exp]
            /\ PowDepth(argD2) <= n

\* (-0.3)^5 = -0.00243, the exponent stored as 50 x 10^-1
C17_Witness ==
    /\ Returns("Pow")
    /\ argD = buildDecimal(-3, -1)
    /\ argD2 = buildDecimal(50, -1)
    /\ ret = buildDecimal(-243, -5)

\* goroutine g has finished a call of `call` and is about to return
Finished(g, call) == goroutines[g].pc = "done" /\ goroutines[g].call = call

\* the text is not a spelling of an ISO 4217 code
Unofficial(s) == CodeOf(s) \notin ISOCodes

\* C18: a ParseCurrency of a code that is not an ISO code returns
\* ErrInvalidCurrency as long as no registration of that code has been asked
\* for; a ParseCurrency that starts after a registration of the code has
\* returned, in whatever letter case and with whatever spaces around it,
\* returns the trimmed upper-case code and no error; and no step of the
\* program takes a code out of the registry.
C18_RegistrationIsPermanent ==
    /\ [](\A g \in Goroutines :
            (Finished(g, "ParseCurrency") /\ Unofficial(goroutines[g].code)) =>
               /\ CodeOf(goroutines[g].code) \notin requested =>
                      /\ goroutines[g].err = ErrInvalidCurrency
                      /\ goroutines[g].c = nullCurrency
               /\ goroutines[g].after =>
                      /\ goroutines[g].err = NoError
                      /\ goroutines[g].c = CodeOf(goroutines[g].code))
    /\ [][unoficialCurrencies \subseteq unoficialCurrencies']_vars

\* a parse of "eth" succeeds with "ETH" after a registration of the code,
\* written otherwise, has returned
C18_Witness ==
    \E g \in Goroutines :
        /\ Finished(g, "ParseCurrency")
        /\ goroutines[g].after
        /\ goroutines[g].code = <<"e", "t", "h">>
        /\ goroutines[g].c = <<"E", "T", "H">>
        /\ goroutines[g].err = NoError
        /\ unoficialCurrencies = {<<"E", "T", "H">>}

\* C19: whatever the interleaving of the goroutines, a ParseCurrency returns
\* either ErrInvalidCurrency with no currency or no error with the trimmed
\* upper-case code; one that started after a registration of its code had
\* returned succeeds; and every code whose registration has returned is in
\* the registry, unless it is an ISO code, which needs no entry.
C19_ConcurrentCallsAreSafe ==
    /\ \A g \in Goroutines :
          Finished(g, "ParseCurrency") =>
             /\ \/ goroutines[g].err = ErrInvalidCurrency /\ goroutines[g].c = nullCurrency
                \/ goroutines[g].err = NoError /\ goroutines[g].c = CodeOf(goroutines[g].code)
             /\ goroutines[g].after => goroutines[g].err = NoError
    /\ \A code \in returned : Load(unoficialCurrencies, code) \/ code \in ISOCodes

\* two registrations of one code race: both found it missing, one has
\* stored it and returned while the other has yet to store, and a parse
\* started in between has succeeded
C19_Witness ==
    \E g, h \in Goroutines :
        /\ Finished(g, "ParseCurrency")
        /\ goroutines[g].after
        /\ goroutines[g].err = NoError
        /\ goroutines[h].call = "RegisterUnoficialCurrency"
        /\ goroutines[h].pc = "store"
        /\ CodeOf(goroutines[h].code) = CodeOf(goroutines[g].code)

\* C20: a Money whose currency is the empty string is never valid: whatever
\* registrations have been made, Validate on it and ParseCurrency of the
\* empty string return ErrInvalidCurrency.
C20_EmptyCurrencyIsNeverValid ==
    \A g \in Goroutines :
        (/\ Finished(g, "Validate") \/ Finished(g, "ParseCurrency")
         /\ goroutines[g].code = <<>>) =>
            goroutines[g].err = ErrInvalidCurrency

\* the empty code has been registered, and Validate on the zero Money
\* returns no error
C20_FailingInput ==
    \E g \in Goroutines :
        /\ Finished(g, "Validate")
        /\ goroutines[g].code = <<>>
        /\ goroutines[g].err = NoError
        /\ <<>> \in returned
        /\ Load(unoficialCurrencies, <<>>)

\* a decode of `name` has returned
Decodes(name) == pc = "done" /\ op = name

\* the text between the quotes of the data in argText
Unquoted == SubSeq(argText, 2, Len(argText) - 1)

\* C21: parsing failures are always reported: Decimal.UnmarshalJSON returns
\* an error for every input that is not a well-formed decimal text between
\* quotes, and Currency.UnmarshalJSON returns an error for every input that
\* is not a recognised currency code between quotes.
C21_DecodeFailuresAreReported ==
    /\ Decodes("UnmarshalJSON") =>
          (~(IsQuoted(argText) /\ ~Malformed(Unquoted)) => err # NoError)
    /\ Decodes("Currency.UnmarshalJSON") =>
          (~(/\ IsQuoted(argText)
             /\ \/ CodeOf(Unquoted) \in ISOCodes
                \/ Load(unoficialCurrencies, CodeOf(Unquoted))) => err # NoError)

\* the JSON number 1.0, not between quotes, is decoded with no error and
\* the receiver is left at the zero value
C21_FailingInput ==
    /\ Decodes("UnmarshalJSON")
    /\ argText = <<"1", ".", "0">>
    /\ argD = nullDecimal
    /\ ret = nullDecimal
    /\ err = NoError

\* C22: division by zero is fatal: for every dividend d, zero included,
\* Div, Mod and RoundNearest with a divisor or unit whose coefficient is zero
\* panic and return no Decimal.
C22_DivisionByZeroPanics ==
    (/\ pc = "done"
     /\ op \in {"Div", "Mod", "RoundNearest"}
     /\ Sign(argD2) = SignNeutral) =>
        /\ err = Panic
        /\ ret = nullDecimal

\* RoundNearest of 0.5 to the unit 0.00 has panicked
C22_Witness ==
    /\ pc = "done"
    /\ op = "RoundNearest"
    /\ argD = buildDecimal(5, -1)
    /\ argD2 = buildDecimal(0, -2)
    /\ err = Panic

\* an int32 as an integer of any size
bigOf32(n) ==
    IF n = MinInt32 THEN bigSub(bigNewInt(MinInt32 + 1), bigNewInt(1)) ELSE bigNewInt(n)

\* the integer x is outside the int32 range
Outside32(x) == bigCmp(x, bigOf32(MaxInt32)) > 0 \/ bigCmp(x, bigOf32(MinInt32)) < 0

\* C23: the exponent never silently leaves the int32 range: a Mul whose
\* exact exponent d.exp + d2.exp, a Div whose exact intermediate exponent
\* d.exp - d2.exp + 16, or a Round whose exact exponent -places is outside
\* the range panics and returns no Decimal.
C23_ExponentOverflowPanics ==
    /\ (pc = "done" /\ op = "Mul") =>
          (Outside32(bigAdd(bigOf32(argD.exp), bigOf32(argD2.exp))) => err = Panic)
    /\ (pc = "done" /\ op = "Div") =>
          (Outside32(bigAdd(bigSub(bigOf32(argD.exp), bigOf32(argD2.exp)),
                            bigNewInt(divisionPrecision))) => err = Panic)
    /\ (pc = "done" /\ op = "Round") =>
          (Outside32(bigNeg(bigOf32(argPlaces))) => err = Panic)

\* 1 x 10^2147483647 divided by 1 x 10^-2147483648 returns 0.1, written
\* with 16 places
C23_FailingInput ==
    /\ Returns("Div")
    /\ argD = [value |-> bigNewInt(1), exp |-> MaxInt32]
    /\ argD2 = [value |-> bigNewInt(1), exp |-> MinInt32]
    /\ ret.exp = -divisionPrecision
    /\ String(ret) = <<"0", ".", "1">> \o Repeat("0", 15)

\* C24: serialisation round-trips: for every Decimal d, decoding the JSON
\* or the text encoding of d gives a Decimal numerically equal to d, and
\* decoding the binary or the gob encoding of d gives the coefficient and
\* the exponent of d exactly.
C24_EncodingsRoundTrip ==
    (pc = "done" /\ op = "Unmarshal") =>
        /\ err = NoError
        /\ IF argMode \in {"Binary", "Gob"}
           THEN ret = argD
           ELSE Cmp(ret, argD) = 0

\* -3 x 10^-2147483648 comes back from its six bytes
C24_Witness ==
    /\ pc = "done"
    /\ op = "Unmarshal"
    /\ argMode = "Gob"
    /\ argText = <<128, 0, 0, 0, 3, 3>>
    /\ argD = [value |-> bigNewInt(-3), exp |-> MinInt32]
    /\ ret = argD

\* C30: a failed decode leaves its target unchanged: whenever
\* UnmarshalText, UnmarshalJSON, UnmarshalBinary or GobDecode returns an
\* error, the receiver holds the coefficient and the exponent it had before.
C30_FailedDecodeKeepsReceiver ==
    (/\ pc = "done"
     /\ op \in {"UnmarshalText", "UnmarshalJSON", "UnmarshalBinary", "GobDecode"}
     /\ err \notin {NoError, Panic}) =>
        ret = argD

\* UnmarshalText of "x" into a Decimal holding 2.5 returns an error and
\* leaves 0 x 10^1 in it
C30_FailingInput ==
    /\ Decodes("UnmarshalText")
    /\ argText = <<"x">>
    /\ argD = buildDecimal(25, -1)
    /\ ret = zero
    /\ err = ErrDecodingString

\* C25: the package-level Money operations do what their documentation
\* says: for x and y of one currency, Add returns the sum of the amounts in
\* that currency, and Sub, Mul and Div the difference, the product and the
\* quotient.
C25_MoneyOperationsCompute ==
    /\ Returns("MoneyAdd") => (retStr = argText /\ Cmp(ret, Add(argD, argD2)) = 0)
    /\ Returns("MoneySub") => (retStr = argText /\ Cmp(ret, Sub(argD, argD2)) = 0)
    /\ Returns("MoneyMul") => (retStr = argText /\ Cmp(ret, Mul(argD, argD2)) = 0)
    /\ (Returns("MoneyDiv") /\ Sign(argD2) # SignNeutral) =>
          (retStr = argText /\ Cmp(ret, Div(argD, argD2)) = 0)

\* Add of 0.01 USD and 0.02 USD returns the zero amount and no currency
C25_FailingInput ==
    /\ Returns("MoneyAdd")
    /\ argD = buildDecimal(1, -2)
    /\ argD2 = buildDecimal(2, -2)
    /\ argText = <<"U", "S", "D">>
    /\ ret = nullDecimal
    /\ retStr = <<>>

\* C26: for every d that is not zero and every integer n > 0, d.Pow(-n)
\* equals 1 divided by d.Pow(n): rounded to the division precision, it is
\* One.Div(d.Pow(n)).
C26_NegativePowIsReciprocal ==
    (pc = "done" /\ op = "PowNegative" /\ Sign(argD) # SignNeutral) =>
        /\ err = NoError
        /\ Equal(Round(ret, divisionPrecision),
                 Div(buildDecimal(1, 0), Pow(argD, Neg(argD2))))

\* 0.3 to the power -2 is 11.11111111111110888..., not 11.1111111111111111
C26_FailingInput ==
    /\ Returns("PowNegative")
    /\ argD = buildDecimal(3, -1)
    /\ argD2 = buildDecimal(-2, 0)
    /\ String(ret) = <<"1", "1", ".">> \o Repeat("1", 14) \o <<"0">>
                         \o Repeat("8", 16) \o <<"9">>

\* the operand of the call lies halfway between two consecutive multiples
\* of 10^(-argPlaces)
AtMidpoint ==
    LET e == min(argD.exp, -argPlaces)
        u == pow10(-argPlaces - e)
    IN  u > 1 /\ scaled(argD, e) % u = u \div 2

C27_RoundDownGoesBelow ==
    /\ Returns("RoundDown")
    /\ argD = buildDecimal(25, -1)
    /\ argPlaces = 0
    /\ ret = buildDecimal(2, 0)

WholeDigits(d) ==
    IF d.value.abs = <<>> THEN <<"0">>
    ELSE bigString(d.value) \o Repeat("0", d.exp)

C28_OneZeroAtExponentTwo ==
    /\ Returns("String")
    /\ argD = buildDecimal(12, 2)
    /\ retStr = <<"1", "2", "0", "0", ".", "0">>

C29_AcceptedCurrencyCanBeRounded ==
    \A g \in Goroutines :
        (Finished(g, "Scale") \/ Finished(g, "RoundUnit")) =>
            goroutines[g].err # Panic

\* "ETH" has been registered, ParseCurrency("eth") has returned "ETH" and
\* no error, and RoundUnit(cash) on it panics
C29_FailingInput ==
    \E g \in Goroutines :
        /\ Finished(g, "RoundUnit")
        /\ goroutines[g].code = <<"e", "t", "h">>
        /\ goroutines[g].c = <<"E", "T", "H">>
        /\ goroutines[g].kind = RoundingCash
        /\ Load(unoficialCurrencies, <<"E", "T", "H">>)
        /\ goroutines[g].err = Panic

\* on an ISO code the adapter returns
C29_ISOCodeIsRounded ==
    \E g \in Goroutines :
        /\ Finished(g, "Scale")
        /\ goroutines[g].c = <<"U", "S", "D">>
        /\ goroutines[g].err = NoError

====
